---- MODULE Spec2Model ----
(***************************************************************************)
(* ChrmProf (src/sim/chrm_prof.py): a chromosome profile.  A mutated       *)
(* chromosome string together with two doubly linked lists, the original   *)
(* segments (_OrgNode) and the mutated segments (_MutNode); every mutated  *)
(* segment points at the original segment it descends from and is kept in  *)
(* that segment's children list.                                           *)
(*                                                                         *)
(* Objects are modelled as a heap: orgs and muts map an object identity    *)
(* (a positive number) to the record of the object's fields, None is 0.   *)
(* A Python exception raised inside an operator ends the call where it is  *)
(* raised; the fields keep what was assigned before it ("fault").          *)
(***************************************************************************)
EXTENDS Integers, Sequences, FiniteSets, TLC

\* Longest chromosome handed to ChrmProf(chrm).
MaxN == 4
\* Longest mutated chromosome: amp is not called when it would grow past it.
MaxM == 8
\* Largest coverage (cov) and longest read (read_len) handed to
\* get_sv_read_nums.
MaxCov == 1
MaxReadLen == 4
\* Longest mutated chromosome the reads are sampled from.
MaxSampled == 6

None == 0

\* sequence: the chromosome ChrmProf was constructed with; chrm, org, mut: the
\* attributes of the ChrmProf object; orgs, muts: the _OrgNode and _MutNode
\* objects they reach; raised: a call raised an exception.
\* read_len, ps, svs: the read length get_sv_read_nums was called with (0: it
\* was not called), the sorted read centers it drew, and the dict it returned.
VARIABLES sequence, chrm, org, mut, orgs, muts, raised, read_len, ps, svs

vars == <<sequence, chrm, org, mut, orgs, muts, raised, read_len, ps, svs>>

\* The ChrmProf object: its three attributes and the objects they reach.
Self == [chrm |-> chrm, org |-> org, mut |-> mut, orgs |-> orgs, muts |-> muts]

\* The identity of a newly constructed object: the first one not in use.
NewId(heap) ==
  CHOOSE i \in 1..(Cardinality(DOMAIN heap) + 1) :
    i \notin DOMAIN heap /\ \A j \in 1..(i - 1) : j \in DOMAIN heap

\* _OrgNode.__init__
OrgNode(bgn, end) ==
  [children |-> <<>>, l |-> None, r |-> None, bgn |-> bgn, end |-> end]

\* _MutNode.__init__
MutNode(bgn, end, is_inv) ==
  [parent |-> None, l |-> None, r |-> None, bgn |-> bgn, end |-> end,
   is_inv |-> is_inv]

\* ChrmProf.__init__
ChrmProf(s) ==
  [chrm |-> s, org |-> 1, mut |-> 1,
   orgs |-> (1 :> [OrgNode(0, Len(s) - 1) EXCEPT !.children = <<1>>]),
   muts |-> (1 :> [MutNode(0, Len(s) - 1, FALSE) EXCEPT !.parent = 1])]

\* s[::-1]
Reverse(s) == [i \in 1..Len(s) |-> s[Len(s) + 1 - i]]

\* tri_split_str: s[:bgn], s[bgn:end+1], s[end+1:]
tri_split_str(s, bgn, end) ==
  [s1 |-> SubSeq(s, 1, bgn), s2 |-> SubSeq(s, bgn + 1, end + 1),
   s3 |-> SubSeq(s, end + 2, Len(s))]

\* list.remove(x): the list without the first occurrence of x
ListRemove(lst, x) ==
  LET i == CHOOSE j \in 1..Len(lst) : lst[j] = x /\ \A h \in 1..(j - 1) : lst[h] # x
  IN  SubSeq(lst, 1, i - 1) \o SubSeq(lst, i + 1, Len(lst))

\* x in list
ListHas(lst, x) == \E j \in 1..Len(lst) : lst[j] = x

\* while cur != None and cur.bgn != bgn: cur = cur.r
RECURSIVE walk_to_bgn(_, _, _)
walk_to_bgn(ms, cur, bgn) ==
  IF cur = None \/ ms[cur].bgn = bgn THEN cur ELSE walk_to_bgn(ms, ms[cur].r, bgn)

\* while cur != None and cur.end != end: cur = cur.r
RECURSIVE walk_to_end(_, _, _)
walk_to_end(ms, cur, end) ==
  IF cur = None \/ ms[cur].end = end THEN cur ELSE walk_to_end(ms, ms[cur].r, end)

\* _get_head_tail
_get_head_tail(ms, cur, bgn, end) ==
  LET head == walk_to_bgn(ms, cur, bgn)
  IN  [head |-> head, tail |-> walk_to_end(ms, head, end)]

\* _is_already_mut_bgn without the walk: only the node it is given is looked at.
_is_already_mut_bgn_head(ms, cur, bgn) ==
  IF cur = None THEN FALSE ELSE bgn = ms[cur].bgn

RECURSIVE _is_already_mut_bgn(_, _, _)
_is_already_mut_bgn(ms, cur, bgn) ==
  IF cur = None THEN FALSE
  ELSE IF bgn = ms[cur].bgn THEN TRUE
  ELSE _is_already_mut_bgn(ms, ms[cur].r, bgn)

RECURSIVE _is_already_mut_end(_, _, _)
_is_already_mut_end(ms, cur, end) ==
  IF cur = None THEN FALSE
  ELSE IF end = ms[cur].end THEN TRUE
  ELSE _is_already_mut_end(ms, ms[cur].r, end)

\* ChrmProf._is_in_bounds
_is_in_bounds(cp, bgn, end) ==
  LET n == Len(cp.chrm)
  IN  ~(bgn < 0 \/ bgn > end \/ end >= n)

\* _is_splitable without the "bgn != 0" test: position 0 counts as mutated.
_is_splitable_bgn0(cp, bgn, end) ==
  LET n == Len(cp.chrm)
  IN  IF _is_already_mut_bgn(cp.muts, cp.mut, bgn) THEN FALSE
      ELSE IF end + 1 < n /\ _is_already_mut_end(cp.muts, cp.mut, end) THEN FALSE
      ELSE TRUE

\* ChrmProf._is_splitable
_is_splitable(cp, bgn, end) ==
  LET n == Len(cp.chrm)
  IN  IF bgn # 0 /\ _is_already_mut_bgn(cp.muts, cp.mut, bgn) THEN FALSE
      ELSE IF end + 1 < n /\ _is_already_mut_end(cp.muts, cp.mut, end) THEN FALSE
      ELSE TRUE

\* _OrgNode.split without "self.end = self.bgn + k - 1": the split node keeps
\* its end.
OrgNode_split_noend(os, self, k, new) ==
  LET r  == os[self].r
      o1 == (new :> [OrgNode(os[self].bgn + k, os[self].end) EXCEPT !.r = r, !.l = self]) @@ os
      o2 == [o1 EXCEPT ![self].r = new]
  IN  IF r # None THEN [o2 EXCEPT ![r].l = new] ELSE o2

\* _OrgNode.split: new is the identity of the node it constructs and returns
OrgNode_split(os, self, k, new) ==
  LET r  == os[self].r
      o1 == (new :> [OrgNode(os[self].bgn + k, os[self].end) EXCEPT !.r = r, !.l = self]) @@ os
      o2 == [o1 EXCEPT ![self].r = new]
      o3 == IF r # None THEN [o2 EXCEPT ![r].l = new] ELSE o2
  IN  [o3 EXCEPT ![self].end = os[self].bgn + k - 1]

\* _MutNode.split without "r.l = self.r": the old right neighbour keeps its l.
MutNode_split_nol(ms, self, k, new) ==
  LET r  == ms[self].r
      m1 == (new :> [MutNode(ms[self].bgn + k, ms[self].end, ms[self].is_inv)
                       EXCEPT !.r = r, !.l = self]) @@ ms
      m2 == [m1 EXCEPT ![self].r = new]
  IN  [m2 EXCEPT ![self].end = ms[self].bgn + k - 1]

\* _MutNode.split: new is the identity of the node it constructs and returns
MutNode_split(ms, self, k, new) ==
  LET r  == ms[self].r
      m1 == (new :> [MutNode(ms[self].bgn + k, ms[self].end, ms[self].is_inv)
                       EXCEPT !.r = r, !.l = self]) @@ ms
      m2 == [m1 EXCEPT ![self].r = new]
      m3 == IF r # None THEN [m2 EXCEPT ![r].l = new] ELSE m2
  IN  [m3 EXCEPT ![self].end = ms[self].bgn + k - 1]

\* _split, the search: the mutated node with bgn <= k <= end
RECURSIVE _split_find(_, _, _)
_split_find(ms, splitMut, k) ==
  IF splitMut = None \/ (ms[splitMut].bgn <= k /\ k <= ms[splitMut].end) THEN splitMut
  ELSE _split_find(ms, ms[splitMut].r, k)

\* _split, the loop over orgNode1.children from its i-th element on
RECURSIVE _split_children(_, _, _, _, _)
_split_children(cp, kids, i, k, orgNode2) ==
  IF i > Len(kids) THEN cp
  ELSE LET mutNode1 == kids[i]
           mutNode2 == NewId(cp.muts)
           m1 == MutNode_split(cp.muts, mutNode1, k, mutNode2)
           m2 == [m1 EXCEPT ![mutNode2].parent = orgNode2]
           o2 == [cp.orgs EXCEPT ![orgNode2].children = Append(@, mutNode2)]
       IN  _split_children([cp EXCEPT !.muts = m2, !.orgs = o2], kids, i + 1, k, orgNode2)

\* ChrmProf._split; exc: it raised (splitMut.parent of None)
_split(cp, k) ==
  IF k = 0 \/ k >= Len(cp.chrm) THEN [cp |-> cp, exc |-> FALSE]
  ELSE LET splitMut == _split_find(cp.muts, cp.mut, k) IN
    IF splitMut = None THEN [cp |-> cp, exc |-> TRUE]
    ELSE IF cp.muts[splitMut].bgn = k \/ cp.muts[splitMut].end = k
      THEN [cp |-> cp, exc |-> FALSE]
    ELSE LET orgNode1 == cp.muts[splitMut].parent
             kk       == k - cp.muts[splitMut].bgn
             orgNode2 == NewId(cp.orgs)
             os       == OrgNode_split(cp.orgs, orgNode1, kk, orgNode2)
         IN  [cp  |-> _split_children([cp EXCEPT !.orgs = os], os[orgNode1].children,
                                      1, kk, orgNode2),
              exc |-> FALSE]

\* ChrmProf._2split
_2split(cp, bgn, end) ==
  LET n == Len(cp.chrm)
      a == IF bgn > 0 THEN _split(cp, bgn) ELSE [cp |-> cp, exc |-> FALSE]
  IN  IF a.exc THEN a
      ELSE IF end + 1 < n THEN _split(a.cp, end + 1) ELSE a

\* _get_inv_pos_diff without the case of an odd region length.
_get_inv_pos_diff_even(rgbgn, rgend, sgbgn, sgend) ==
  LET rglen == rgend - rgbgn + 1
      sglen == sgend - sgbgn + 1
      midp  == ((rglen + 1) \div 2) + rgbgn - 1
      l     == midp - sgend
  IN  2 * l + sglen

\* _get_inv_pos_diff; ceil(rglen / 2.0) is (rglen + 1) \div 2
_get_inv_pos_diff(rgbgn, rgend, sgbgn, sgend) ==
  LET rglen == rgend - rgbgn + 1
      sglen == sgend - sgbgn + 1
      midp  == ((rglen + 1) \div 2) + rgbgn - 1
      l     == midp - sgend
  IN  IF rglen % 2 = 0 THEN 2 * l + sglen ELSE 2 * l + sglen - 1

\* The loop of _rev_mut without "cur.is_inv = not cur.is_inv".
RECURSIVE _rev_mut_loop_noflag(_, _, _, _, _)
_rev_mut_loop_noflag(ms, cur, ot, rgbgn, rgend) ==
  IF cur = ot THEN [muts |-> ms, exc |-> FALSE]
  ELSE IF cur = None THEN [muts |-> ms, exc |-> TRUE]
  ELSE LET prv == ms[cur].l
           nxt == ms[cur].r
           pos_diff == _get_inv_pos_diff(rgbgn, rgend, ms[cur].bgn, ms[cur].end)
       IN  _rev_mut_loop_noflag([ms EXCEPT ![cur].l = nxt, ![cur].r = prv,
                                           ![cur].bgn = @ + pos_diff, ![cur].end = @ + pos_diff],
                                nxt, ot, rgbgn, rgend)

\* _rev_mut, the loop reversing ih -> ... -> it; exc: cur.l of None
RECURSIVE _rev_mut_loop(_, _, _, _, _)
_rev_mut_loop(ms, cur, ot, rgbgn, rgend) ==
  IF cur = ot THEN [muts |-> ms, exc |-> FALSE]
  ELSE IF cur = None THEN [muts |-> ms, exc |-> TRUE]
  ELSE LET prv == ms[cur].l
           nxt == ms[cur].r
           pos_diff == _get_inv_pos_diff(rgbgn, rgend, ms[cur].bgn, ms[cur].end)
       IN  _rev_mut_loop([ms EXCEPT ![cur].l = nxt, ![cur].r = prv,
                                    ![cur].bgn = @ + pos_diff, ![cur].end = @ + pos_diff,
                                    ![cur].is_inv = ~@],
                         nxt, ot, rgbgn, rgend)

\* ChrmProf._rev_mut; exc: it raised (cur.l or cur.r of None)
_rev_mut(cp, bgn, end) ==
  LET ih == walk_to_bgn(cp.muts, cp.mut, bgn) IN
  IF ih = None THEN [cp |-> cp, exc |-> TRUE]
  ELSE LET oh == cp.muts[ih].l
           it == walk_to_end(cp.muts, ih, end) IN
    IF it = None THEN [cp |-> cp, exc |-> TRUE]
    ELSE LET ot == cp.muts[it].r
             lp == _rev_mut_loop(cp.muts, ih, ot, cp.muts[ih].bgn, cp.muts[it].end) IN
      IF lp.exc THEN [cp |-> [cp EXCEPT !.muts = lp.muts], exc |-> TRUE]
      ELSE LET m1 == [lp.muts EXCEPT ![it].l = oh]
               m2 == [m1 EXCEPT ![ih].r = ot]
               m3 == IF oh # None THEN [m2 EXCEPT ![oh].r = it] ELSE m2
               m4 == IF ot # None THEN [m3 EXCEPT ![ot].l = ih] ELSE m3
           IN  [cp  |-> [cp EXCEPT !.muts = m4, !.mut = IF oh = None THEN it ELSE @],
                exc |-> FALSE]

\* What a call leaves: the object, what it returned ("True", "False", or
\* "fault" when it raised), and the object as _2split left it.
Outcome(cp, ret, afterSplit) == [cp |-> cp, ret |-> ret, mid |-> afterSplit]

\* ChrmProf.inv
inv(cp, bgn, end) ==
  IF ~_is_in_bounds(cp, bgn, end) \/ ~_is_splitable(cp, bgn, end)
  THEN Outcome(cp, "False", cp)
  ELSE LET sp == _2split(cp, bgn, end) IN
    IF sp.exc THEN Outcome(sp.cp, "fault", sp.cp)
    ELSE LET rv == _rev_mut(sp.cp, bgn, end) IN
      IF rv.exc THEN Outcome(rv.cp, "fault", sp.cp)
      ELSE LET s == tri_split_str(rv.cp.chrm, bgn, end)
           IN  Outcome([rv.cp EXCEPT !.chrm = s.s1 \o Reverse(s.s2) \o s.s3], "True", sp.cp)

\* The loop of rem without "head.parent.children.remove(head)".
RECURSIVE _rem_children_keep(_, _, _)
_rem_children_keep(os, ms, head) ==
  IF head = None THEN [orgs |-> os, muts |-> ms, exc |-> FALSE]
  ELSE _rem_children_keep(os, [i \in DOMAIN ms \ {head} |-> ms[i]], ms[head].r)

\* rem, the loop taking the unlinked nodes out of their parents' children
\* lists; exc: children.remove(head) raised (head not in the list)
RECURSIVE _rem_children(_, _, _)
_rem_children(os, ms, head) ==
  IF head = None THEN [orgs |-> os, muts |-> ms, exc |-> FALSE]
  ELSE LET p == ms[head].parent IN
    IF ~ListHas(os[p].children, head) THEN [orgs |-> os, muts |-> ms, exc |-> TRUE]
    ELSE _rem_children([os EXCEPT ![p].children = ListRemove(@, head)],
                       [i \in DOMAIN ms \ {head} |-> ms[i]], ms[head].r)

\* rem, the loop moving the segments right of the deleted region
RECURSIVE _rem_shift(_, _, _)
_rem_shift(ms, cur, seg_len) ==
  IF cur = None THEN ms
  ELSE _rem_shift([ms EXCEPT ![cur].bgn = @ - seg_len, ![cur].end = @ - seg_len],
                  ms[cur].r, seg_len)

\* rem, after _2split: unlink head -> tail from the mutated list
_rem_unlink(cp, head, tail) ==
  LET newL == cp.muts[head].l
      newR == cp.muts[tail].r
      m1   == IF newL # None THEN [cp.muts EXCEPT ![newL].r = newR] ELSE cp.muts
      m2   == IF newR # None THEN [m1 EXCEPT ![newR].l = newL] ELSE m1
      m3   == [m2 EXCEPT ![head].l = None]
      m4   == [m3 EXCEPT ![tail].r = None]
  IN  [cp EXCEPT !.mut = IF newL = None THEN newR ELSE @, !.muts = m4]

\* ChrmProf.rem
rem(cp, bgn, end) ==
  IF ~_is_in_bounds(cp, bgn, end) \/ ~_is_splitable(cp, bgn, end)
  THEN Outcome(cp, "False", cp)
  ELSE LET sp == _2split(cp, bgn, end) IN
    IF sp.exc THEN Outcome(sp.cp, "fault", sp.cp)
    ELSE LET ht == _get_head_tail(sp.cp.muts, sp.cp.mut, bgn, end) IN
      IF ht.head = None \/ ht.tail = None THEN Outcome(sp.cp, "fault", sp.cp)
      ELSE LET newR == sp.cp.muts[ht.tail].r
               c1   == _rem_unlink(sp.cp, ht.head, ht.tail)
               rc   == _rem_children(c1.orgs, c1.muts, ht.head) IN
        IF rc.exc THEN Outcome([c1 EXCEPT !.orgs = rc.orgs, !.muts = rc.muts], "fault", sp.cp)
        ELSE LET seg_len == end - bgn + 1
                 s == tri_split_str(c1.chrm, bgn, end)
             IN  Outcome([c1 EXCEPT !.orgs = rc.orgs,
                                    !.muts = _rem_shift(rc.muts, newR, seg_len),
                                    !.chrm = s.s1 \o s.s3],
                         "True", sp.cp)

\* One turn of the loop of _copy_from_to without "curB.parent.children.append(curB)".
_copy_node_noreg(cp, curA, prevB, curB) ==
  LET m1 == (curB :> [cp.muts[curA] EXCEPT !.l = prevB, !.r = None]) @@ cp.muts
      m2 == IF prevB # None THEN [m1 EXCEPT ![prevB].r = curB] ELSE m1
  IN  [cp EXCEPT !.muts = m2]

\* _copy_from_to, one turn of the loop: curB = copy.copy(curA), registered with
\* its parent and linked after prevB
_copy_node(cp, curA, prevB, curB) ==
  LET os == [cp.orgs EXCEPT ![cp.muts[curA].parent].children = Append(@, curB)]
      m1 == (curB :> [cp.muts[curA] EXCEPT !.l = prevB, !.r = None]) @@ cp.muts
      m2 == IF prevB # None THEN [m1 EXCEPT ![prevB].r = curB] ELSE m1
  IN  [cp EXCEPT !.orgs = os, !.muts = m2]

\* _copy_from_to, the loop from curA on; found = FALSE: it fell off the list and
\* returned None
RECURSIVE _copy_loop(_, _, _, _, _)
_copy_loop(cp, curA, prevB, headB, to) ==
  IF curA = None
  THEN [cp |-> cp, found |-> FALSE, insR |-> None, head |-> None, tail |-> None]
  ELSE LET curB == NewId(cp.muts)
           hB   == IF prevB = None THEN curB ELSE headB
           c2   == _copy_node(cp, curA, prevB, curB)
       IN  IF cp.muts[curA].end = to
           THEN [cp |-> c2, found |-> TRUE, insR |-> curA, head |-> hB, tail |-> curB]
           ELSE _copy_loop(c2, cp.muts[curA].r, curB, hB, to)

\* _copy_from_to
_copy_from_to(cp, fm, to) ==
  _copy_loop(cp, walk_to_bgn(cp.muts, cp.mut, fm), None, None, to)

\* amp, the loop moving the inserted segments and those right of them
RECURSIVE _amp_shift(_, _, _)
_amp_shift(ms, head, seg_len) ==
  IF head = None THEN ms
  ELSE _amp_shift([ms EXCEPT ![head].bgn = @ + seg_len, ![head].end = @ + seg_len],
                  ms[head].r, seg_len)

\* The linking of amp without "tail.r = insL": the list ends at the copies.
_amp_link_nosuffix(ms, insR, head, tail) ==
  LET insL == ms[insR].r
      m1   == [ms EXCEPT ![insR].r = head]
      m2   == [m1 EXCEPT ![head].l = insR]
  IN  IF insL # None THEN [m2 EXCEPT ![insL].l = tail] ELSE m2

\* amp, after _copy_from_to: link head -> tail in after insR
_amp_link(ms, insR, head, tail) ==
  LET insL == ms[insR].r
      m1   == [ms EXCEPT ![insR].r = head]
      m2   == [m1 EXCEPT ![head].l = insR]
      m3   == [m2 EXCEPT ![tail].r = insL]
  IN  IF insL # None THEN [m3 EXCEPT ![insL].l = tail] ELSE m3

\* ChrmProf.amp; unpacking the None _copy_from_to returned raises
amp(cp, bgn, end) ==
  IF ~_is_in_bounds(cp, bgn, end) \/ ~_is_splitable(cp, bgn, end)
  THEN Outcome(cp, "False", cp)
  ELSE LET sp == _2split(cp, bgn, end) IN
    IF sp.exc THEN Outcome(sp.cp, "fault", sp.cp)
    ELSE LET cft == _copy_from_to(sp.cp, bgn, end) IN
      IF ~cft.found THEN Outcome(cft.cp, "fault", sp.cp)
      ELSE LET seg_len == end - bgn + 1
               ms == _amp_shift(_amp_link(cft.cp.muts, cft.insR, cft.head, cft.tail),
                                cft.head, seg_len)
               s  == tri_split_str(cft.cp.chrm, bgn, end)
           IN  Outcome([cft.cp EXCEPT !.muts = ms, !.chrm = s.s1 \o s.s2 \o s.s2 \o s.s3],
                       "True", sp.cp)

\* ChrmProf.get_copy_nums, from node cur on
RECURSIVE _copy_nums_from(_, _)
_copy_nums_from(os, cur) ==
  IF cur = None THEN <<>>
  ELSE <<[bgn |-> os[cur].bgn, end |-> os[cur].end, cp |-> Len(os[cur].children)]>>
       \o _copy_nums_from(os, os[cur].r)

\* ChrmProf.get_copy_nums: (bgn, end, copy number) of each original segment
get_copy_nums(cp) == _copy_nums_from(cp.orgs, cp.org)

(***************************************************************************)
(* The breakpoint-read simulator.  A breakpoint tuple (pos, isLeft) is the *)
(* pair <<pos, isLeft>>; the dict svs is a function from breakpoint tuples *)
(* to records, whose mate is <<>> while the Python dict has no 'mate' key   *)
(* and <<tuple>> once it has one.                                          *)
(***************************************************************************)

\* abs(x)
Abs(x) == IF x < 0 THEN -x ELSE x

\* _is_between
_is_between(x, a, b) == (a <= x) /\ (x <= b)

\* _get_org_pos
_get_org_pos(cp, node, isBgn) ==
  LET b == IF cp.muts[node].is_inv THEN ~isBgn ELSE isBgn
  IN  IF b THEN cp.orgs[cp.muts[node].parent].bgn
      ELSE cp.orgs[cp.muts[node].parent].end

\* _get_mated_pos; none: it returned (None, None, None)
_get_mated_pos(cp, cur, isBgn) ==
  LET mate == IF isBgn THEN cp.muts[cur].l ELSE cp.muts[cur].r IN
  IF mate = None
  THEN [none |-> TRUE, matePos |-> 0, isLeft |-> FALSE, isAdj |-> FALSE]
  ELSE LET curPos  == _get_org_pos(cp, cur, isBgn)
           matePos == _get_org_pos(cp, mate, ~isBgn)
       IN  [none    |-> FALSE,
            matePos |-> matePos,
            isLeft  |-> (cp.orgs[cp.muts[mate].parent].end = matePos),
            isAdj   |-> (Abs(curPos - matePos) = 1)]

\* _get_cur_pos
_get_cur_pos(cp, cur, isBgn) ==
  LET oCur   == cp.orgs[cp.muts[cur].parent]
      isLeft == IF cp.muts[cur].is_inv THEN ~(~isBgn) ELSE ~isBgn
  IN  IF isLeft THEN <<oCur.end, isLeft>> ELSE <<oCur.bgn, isLeft>>

\* {'total_reads': 0, 'mated_reads': 0}
NewSv == [total_reads |-> 0, mated_reads |-> 0, mate |-> <<>>]

\* {}
EmptyDict == [k \in {} |-> NewSv]

\* d[k] = v
DictSet(d, k, v) == [x \in DOMAIN d \cup {k} |-> IF x = k THEN v ELSE d[x]]

\* _add_sv_to_dict: the dict after the call
_add_sv_to_dict(cp, d, cur, isBgn) ==
  LET mp == _get_mated_pos(cp, cur, isBgn) IN
  IF mp.none THEN d
  ELSE LET curTup  == _get_cur_pos(cp, cur, isBgn)
           mateTup == <<mp.matePos, mp.isLeft>>
           d1 == IF curTup \notin DOMAIN d THEN DictSet(d, curTup, NewSv) ELSE d
           d2 == IF mateTup \notin DOMAIN d1 THEN DictSet(d1, mateTup, NewSv) ELSE d1
           d3 == [d2 EXCEPT ![curTup].total_reads = @ + 1]
       IN  IF mp.isAdj THEN d3
           ELSE LET d4 == [d3 EXCEPT ![curTup].mated_reads = @ + 1]
                    d5 == [d4 EXCEPT ![curTup].mate = <<mateTup>>]
                IN  [d5 EXCEPT ![mateTup].mate = <<curTup>>]

\* One call of _add_sv_to_dict as the loop of get_sv_read_nums made it.
SvCall(cur, isBgn, before, after) ==
  [cur |-> cur, isBgn |-> isBgn, before |-> before, after |-> after]

\* get_sv_read_nums, the loop over the read centers ps[i..] with the list
\* pointer at cur.  run.svs is the dict; run.tested lists, for every center
\* that reached the tests of cur.bgn and cur.end, the center and cur;
\* run.calls lists the calls of _add_sv_to_dict.
RECURSIVE _reads_loop(_, _, _, _, _, _)
_reads_loop(cp, cur, centers, i, d, run) ==
  IF cur = None \/ i > Len(centers) THEN run
  ELSE LET p   == centers[i]
           pl  == p - d
           pr  == p + d
           c1  == IF cp.muts[cur].end < p THEN cp.muts[cur].r ELSE cur
       IN  IF c1 = None THEN run
           ELSE LET atBgn == _is_between(cp.muts[c1].bgn, pl, pr)
                    atEnd == _is_between(cp.muts[c1].end, pl, pr)
                    d1 == IF atBgn THEN _add_sv_to_dict(cp, run.svs, c1, TRUE) ELSE run.svs
                    d2 == IF atEnd THEN _add_sv_to_dict(cp, d1, c1, FALSE) ELSE d1
                    k1 == IF atBgn THEN <<SvCall(c1, TRUE, run.svs, d1)>> ELSE <<>>
                    k2 == IF atEnd THEN <<SvCall(c1, FALSE, d1, d2)>> ELSE <<>>
                IN  _reads_loop(cp, c1, centers, i + 1, d,
                                [svs    |-> d2,
                                 tested |-> Append(run.tested, [p |-> p, cur |-> c1]),
                                 calls  |-> run.calls \o k1 \o k2])

\* get_sv_read_nums: read_len made odd
OddReadLen(rlen) == IF rlen % 2 = 0 THEN rlen + 1 ELSE rlen

\* get_sv_read_nums: num_reads, ceil(n / read_len * cov)
num_reads(cp, cov, rlen) ==
  (Len(cp.chrm) * cov + OddReadLen(rlen) - 1) \div OddReadLen(rlen)

\* get_sv_read_nums: what ps can be after ps.sort(), k centers drawn from
\* range(0, n)
Centers(n, k) ==
  {c \in [1..k -> 0..(n - 1)] : \A i \in 1..(k - 1) : c[i] <= c[i + 1]}

\* get_sv_read_nums, the run of its loop for the sorted centers
ReadsRun(cp, rlen, centers) ==
  _reads_loop(cp, cp.mut, centers, 1, OddReadLen(rlen) \div 2,
              [svs |-> EmptyDict, tested |-> <<>>, calls |-> <<>>])

\* ChrmProf.get_sv_read_nums: the dict without the keys that have no mate
get_sv_read_nums(cp, rlen, centers) ==
  LET d == ReadsRun(cp, rlen, centers).svs
  IN  [k \in {x \in DOMAIN d : d[x].mate # <<>>} |-> d[k]]

\* ChrmProf(chrm) for a chromosome of n distinct bases: base i is the one at
\* position i - 1 of the original chromosome.
Chromosome(n) == [i \in 1..n |-> i - 1]

Init ==
  \E n \in 1..MaxN :
    LET cp == ChrmProf(Chromosome(n)) IN
      /\ sequence = Chromosome(n)
      /\ chrm = cp.chrm /\ org = cp.org /\ mut = cp.mut
      /\ orgs = cp.orgs /\ muts = cp.muts
      /\ raised = FALSE
      /\ read_len = 0 /\ ps = <<>> /\ svs = EmptyDict

\* The arguments tried on object cp: every position, and one past each end.
Args(cp) == (-1)..Len(cp.chrm)

\* A call returns or raises: the object is as the call left it.
Called(out) ==
  /\ chrm' = out.cp.chrm /\ org' = out.cp.org /\ mut' = out.cp.mut
  /\ orgs' = out.cp.orgs /\ muts' = out.cp.muts
  /\ raised' = (out.ret = "fault")
  /\ UNCHANGED <<sequence, read_len, ps, svs>>

\* The run: calls of inv, rem and amp until one raises, then the reads are
\* sampled once from the profile they left.
Running == ~raised /\ read_len = 0

Inv ==
  /\ Running
  /\ \E bgn, end \in Args(Self) : Called(inv(Self, bgn, end))

Rem ==
  /\ Running
  /\ \E bgn, end \in Args(Self) : Called(rem(Self, bgn, end))

\* amp on a region that would make the chromosome longer than MaxM is not tried.
Amp ==
  /\ Running
  /\ \E bgn, end \in Args(Self) :
       /\ Len(chrm) + (end - bgn + 1) <= MaxM
       /\ Called(amp(Self, bgn, end))

Next == Inv \/ Rem \/ Amp

Spec == Init /\ [][Next]_vars

\* get_sv_read_nums(cov, read_len) on the profile the calls so far have left:
\* any outcome of its random.choice draws.  It is not called on a chromosome
\* longer than MaxSampled.
GetSvReadNums ==
  /\ Running
  /\ Len(chrm) <= MaxSampled
  /\ \E cov \in 1..MaxCov : \E rlen \in 2..MaxReadLen :
       \E centers \in Centers(Len(chrm), num_reads(Self, cov, rlen)) :
         /\ read_len' = rlen
         /\ ps' = centers
         /\ svs' = get_sv_read_nums(Self, rlen, centers)
  /\ UNCHANGED <<sequence, chrm, org, mut, orgs, muts, raised>>

SimNext == Inv \/ Rem \/ Amp \/ GetSvReadNums

\* The profile and the simulator.
SimSpec == Init /\ [][SimNext]_vars
(***************************************************************************)
(* Reading the object: the lists as a caller sees them.                    *)
(***************************************************************************)

\* The nodes met from cur through the r links, at most fuel of them.
RECURSIVE ListFrom(_, _, _)
ListFrom(heap, cur, fuel) ==
  IF cur = None \/ fuel = 0 THEN <<>>
  ELSE <<cur>> \o ListFrom(heap, heap[cur].r, fuel - 1)

\* The mutated list and the original list of cp.
MutList(cp) == ListFrom(cp.muts, cp.mut, Cardinality(DOMAIN cp.muts) + 1)
OrgList(cp) == ListFrom(cp.orgs, cp.org, Cardinality(DOMAIN cp.orgs) + 1)

Range(s) == {s[i] : i \in 1..Len(s)}

\* The three operators and a call of one of them.
Ops == {"inv", "rem", "amp"}
Call(op, cp, bgn, end) ==
  CASE op = "inv" -> inv(cp, bgn, end)
    [] op = "rem" -> rem(cp, bgn, end)
    [] OTHER      -> amp(cp, bgn, end)

\* The bases mutated segment m of cp denotes: those of its parent's interval
\* in the original chromosome, reversed when m is inverted.
SegText(cp, m) ==
  LET p == cp.orgs[cp.muts[m].parent]
      s == SubSeq(sequence, p.bgn + 1, p.end + 1)
  IN  IF cp.muts[m].is_inv THEN Reverse(s) ELSE s

RECURSIVE Denoted(_, _, _)
Denoted(cp, lst, i) ==
  IF i > Len(lst) THEN <<>> ELSE SegText(cp, lst[i]) \o Denoted(cp, lst, i + 1)

\* The summed length of the mutated segments lst[i..].
RECURSIVE Span(_, _, _)
Span(cp, lst, i) ==
  IF i > Len(lst) THEN 0
  ELSE cp.muts[lst[i]].end - cp.muts[lst[i]].bgn + 1 + Span(cp, lst, i + 1)

(***************************************************************************)
(* The claims.                                                             *)
(***************************************************************************)

\* C1: in every state the live sequence is as long as the mutated segments
\* together and is the concatenation, in mutated-list order, of the bases each
\* mutated segment denotes: its parent's interval of the original chromosome,
\* reversed when the segment is inverted.
C1_SequenceIsDenoted ==
  /\ Len(chrm) = Span(Self, MutList(Self), 1)
  /\ chrm = Denoted(Self, MutList(Self), 1)

\* C2: every call of inv, rem or amp is all-or-nothing: a call that does not
\* complete (it returns False or raises) leaves the object as it found it.
C2_AllOrNothing ==
  Running =>
    \A op \in Ops : \A bgn, end \in Args(Self) :
      LET out == Call(op, Self, bgn, end)
      IN  out.ret # "True" => out.cp = Self

\* The rejection rule of C3, read off the mutated list.
Rejects(cp, bgn, end) ==
  LET M    == Len(cp.chrm)
      segs == {cp.muts[m] : m \in Range(MutList(cp))}
  IN  \/ bgn < 0 \/ bgn > end \/ end >= M
      \/ bgn # 0 /\ \E s \in segs : s.bgn = bgn
      \/ end + 1 < M /\ \E s \in segs : s.end = end

\* C3: a call returns False exactly when the bounds are wrong, or bgn is not 0
\* and a mutated segment begins at bgn, or end + 1 < M and a mutated segment
\* ends at end; and a call that returns False changes nothing.
C3_RejectedExactlyWhen ==
  Running =>
    \A op \in Ops : \A bgn, end \in Args(Self) :
      LET out == Call(op, Self, bgn, end)
      IN  /\ (out.ret = "False") <=> Rejects(Self, bgn, end)
          /\ out.ret = "False" => out.cp = Self

\* C3 witness: a call inside the bounds is rejected because a mutated segment
\* already begins at its bgn, while a call on the whole chromosome is accepted.
C3_Witness ==
  /\ Running
  /\ \E op \in Ops : \E bgn, end \in Args(Self) :
       /\ 0 < bgn /\ bgn <= end /\ end < Len(chrm)
       /\ \E m \in Range(MutList(Self)) : muts[m].bgn = bgn
       /\ Call(op, Self, bgn, end).ret = "False"
       /\ Call(op, Self, 0, Len(chrm) - 1).ret = "True"
\* A mutated segment as a caller sees it: interval, orientation and parent.
SegOf(cp, m) ==
  [bgn |-> cp.muts[m].bgn, end |-> cp.muts[m].end, is_inv |-> cp.muts[m].is_inv,
   parent |-> cp.muts[m].parent]

Shifted(seg, d) == [seg EXCEPT !.bgn = @ + d, !.end = @ + d]

\* The places in the mutated list lst of the segments lying in [bgn, end].
RegionIdx(cp, lst, bgn, end) ==
  {t \in 1..Len(lst) : bgn <= cp.muts[lst[t]].bgn /\ cp.muts[lst[t]].end <= end}

SetMin(S) == CHOOSE x \in S : \A y \in S : x <= y
SetMax(S) == CHOOSE x \in S : \A y \in S : y <= x

\* The segments of the region are the sub-list i..j, from bgn to end exactly.
Covers(cp, lst, bgn, end) ==
  LET R == RegionIdx(cp, lst, bgn, end)
  IN  /\ R # {}
      /\ R = SetMin(R)..SetMax(R)
      /\ cp.muts[lst[SetMin(R)]].bgn = bgn
      /\ cp.muts[lst[SetMax(R)]].end = end

\* The mutated segments of cp in [bgn, end] that descend from original segment o.
InRegion(cp, o, bgn, end) ==
  {m \in Range(MutList(cp)) :
     cp.muts[m].parent = o /\ bgn <= cp.muts[m].bgn /\ cp.muts[m].end <= end}

\* What a caller can see of the mutated side: the sequence and the segments.
View(cp) ==
  [chrm |-> cp.chrm,
   segs |-> [t \in 1..Len(MutList(cp)) |-> SegOf(cp, MutList(cp)[t])]]

\* C4 as claimed: a successful inv(bgn, end) followed by inv(bgn, end) restores
\* the mutated list order, the orientation flags, the coordinates and the
\* sequence (compared with the segments as the first call split them).
C4_DoubleInvertRestores ==
  Running =>
    \A bgn, end \in Args(Self) :
      LET first == inv(Self, bgn, end)
      IN  first.ret = "True" => View(inv(first.cp, bgn, end).cp) = View(first.mid)

\* C4 amended: after a successful inv(bgn, end) the repeated call succeeds and
\* restores the object exactly when [bgn, end] is the whole chromosome; for any
\* other bounds it returns False and leaves the inverted state.
C4_RepeatedInvert ==
  Running =>
    \A bgn, end \in Args(Self) :
      LET first  == inv(Self, bgn, end)
          second == inv(first.cp, bgn, end)
      IN  first.ret = "True" =>
            IF bgn = 0 /\ end = Len(chrm) - 1
            THEN second.ret = "True" /\ second.cp = Self
            ELSE second.ret = "False" /\ second.cp = first.cp

\* C4 witness: the whole chromosome, in three segments or more of which one is
\* inverted and one is not, is inverted and inverted back.
C4_Witness ==
  /\ Running
  /\ Len(MutList(Self)) >= 3
  /\ \E m, n \in Range(MutList(Self)) : muts[m].is_inv /\ ~muts[n].is_inv
  /\ inv(Self, 0, Len(chrm) - 1).ret = "True"
  /\ inv(inv(Self, 0, Len(chrm) - 1).cp, 0, Len(chrm) - 1).ret = "True"

\* C5 as claimed: a successful amp(bgn, end) adds exactly 1 to the copy number of
\* every original segment with a descendant in [bgn, end] and leaves the others.
C5_AmplifyAddsOne ==
  Running =>
    \A bgn, end \in Args(Self) :
      LET out == amp(Self, bgn, end)
          a   == get_copy_nums(out.mid)
          z   == get_copy_nums(out.cp)
          ol  == OrgList(out.mid)
      IN  out.ret = "True" =>
            /\ Len(z) = Len(a)
            /\ \A i \in 1..Len(a) :
                 z[i].cp = a[i].cp + IF InRegion(out.mid, ol[i], bgn, end) # {} THEN 1 ELSE 0

\* C5 amended: a successful amp(bgn, end) adds to the copy number of every
\* original segment the number of its descendants lying in [bgn, end] (after the
\* boundary splits), one per duplicated segment, and leaves the others unchanged.
C5_AmplifyAddsDescendants ==
  Running =>
    \A bgn, end \in Args(Self) :
      LET out == amp(Self, bgn, end)
          a   == get_copy_nums(out.mid)
          z   == get_copy_nums(out.cp)
          ol  == OrgList(out.mid)
      IN  out.ret = "True" =>
            /\ Len(z) = Len(a)
            /\ \A i \in 1..Len(a) :
                 /\ z[i].bgn = a[i].bgn /\ z[i].end = a[i].end
                 /\ z[i].cp = a[i].cp + Cardinality(InRegion(out.mid, ol[i], bgn, end))

\* C5 witness: amp succeeds on a region holding two descendants of one original
\* segment, and another original segment has none in it.
C5_Witness ==
  /\ Running
  /\ \E bgn, end \in Args(Self) :
       LET out == amp(Self, bgn, end) IN
         /\ Len(chrm) + (end - bgn + 1) <= MaxM
         /\ out.ret = "True"
         /\ \E o \in DOMAIN out.mid.orgs : Cardinality(InRegion(out.mid, o, bgn, end)) >= 2
         /\ \E o \in DOMAIN out.mid.orgs :
              InRegion(out.mid, o, bgn, end) = {} /\ out.mid.orgs[o].children # <<>>

\* The postcondition of a successful amp(bgn, end): mid is the object after the
\* boundary splits, cp the object the call left, s the sequence before the call.
AmpPost(s, mid, cp, bgn, end) ==
  LET A == MutList(mid)
      Z == MutList(cp)
      R == RegionIdx(mid, A, bgn, end)
      i == SetMin(R)
      j == SetMax(R)
      k == j - i + 1
      L == end - bgn + 1
  IN  /\ Covers(mid, A, bgn, end)
      /\ Len(Z) = Len(A) + k
      /\ \A t \in 1..j : Z[t] = A[t] /\ SegOf(cp, Z[t]) = SegOf(mid, A[t])
      /\ \A t \in 1..k :
           /\ Z[j + t] \notin DOMAIN mid.muts
           /\ SegOf(cp, Z[j + t]) = Shifted(SegOf(mid, A[i + t - 1]), L)
      /\ \A t \in (j + 1)..Len(A) :
           Z[t + k] = A[t] /\ SegOf(cp, Z[t + k]) = Shifted(SegOf(mid, A[t]), L)
      /\ Len(cp.chrm) = Len(s) + L
      /\ cp.chrm = SubSeq(s, 1, bgn) \o SubSeq(s, bgn + 1, end + 1)
                     \o SubSeq(s, bgn + 1, end + 1) \o SubSeq(s, end + 2, Len(s))

\* C6: a successful amp(bgn, end) splices a run congruent in lengths, flags and
\* parents to the sub-list covering [bgn, end] right after it; the source
\* segments and those before them keep their coordinates, the duplicates and
\* those after them move up by end - bgn + 1, and the sequence becomes
\* prefix + S + S + suffix.
C6_AmplifySplices ==
  Running =>
    \A bgn, end \in Args(Self) :
      LET out == amp(Self, bgn, end)
      IN  out.ret = "True" => AmpPost(chrm, out.mid, out.cp, bgn, end)

\* C6 witness: amp duplicates a run of two segments or more, one of them
\* inverted, with segments after the run to move up.
C6_Witness ==
  /\ Running
  /\ \E bgn, end \in Args(Self) :
       LET out == amp(Self, bgn, end)
           R   == RegionIdx(out.mid, MutList(out.mid), bgn, end)
       IN  /\ Len(chrm) + (end - bgn + 1) <= MaxM
           /\ out.ret = "True"
           /\ Cardinality(R) >= 2
           /\ end < Len(chrm) - 1
           /\ \E t \in R : out.mid.muts[MutList(out.mid)[t]].is_inv

\* The postcondition of a successful rem(bgn, end), as for AmpPost.
RemPost(s, mid, cp, bgn, end) ==
  LET A  == MutList(mid)
      Z  == MutList(cp)
      R  == RegionIdx(mid, A, bgn, end)
      i  == SetMin(R)
      j  == SetMax(R)
      L  == end - bgn + 1
      a  == get_copy_nums(mid)
      z  == get_copy_nums(cp)
      ol == OrgList(mid)
  IN  /\ Covers(mid, A, bgn, end)
      /\ Z = SubSeq(A, 1, i - 1) \o SubSeq(A, j + 1, Len(A))
      /\ cp.mut = IF i > 1 THEN A[1] ELSE IF j < Len(A) THEN A[j + 1] ELSE None
      /\ \A t \in 1..(i - 1) : SegOf(cp, A[t]) = SegOf(mid, A[t])
      /\ \A t \in (j + 1)..Len(A) : SegOf(cp, A[t]) = Shifted(SegOf(mid, A[t]), -L)
      /\ \A t \in i..j : \A o \in DOMAIN cp.orgs : ~ListHas(cp.orgs[o].children, A[t])
      /\ Len(z) = Len(a)
      /\ \A x \in 1..Len(a) :
           /\ z[x].bgn = a[x].bgn /\ z[x].end = a[x].end
           /\ z[x].cp = a[x].cp - Cardinality(InRegion(mid, ol[x], bgn, end))
      /\ Len(cp.chrm) = Len(s) - L
      /\ cp.chrm = SubSeq(s, 1, bgn) \o SubSeq(s, end + 2, Len(s))

\* C7: a successful rem(bgn, end) unlinks exactly the mutated segments in
\* [bgn, end], takes each out of its parent's children (one copy less per
\* removed segment, the other copy numbers unchanged), moves the segments to
\* the right down by end - bgn + 1, leaves those to the left, cuts [bgn, end]
\* out of the sequence, and moves the head of the list when a prefix or
\* everything is deleted.
C7_DeleteUnlinks ==
  Running =>
    \A bgn, end \in Args(Self) :
      LET out == rem(Self, bgn, end)
      IN  out.ret = "True" => RemPost(chrm, out.mid, out.cp, bgn, end)

\* C7 witness: rem takes two segments or more out of the middle of the list.
C7_Witness ==
  /\ Running
  /\ \E bgn, end \in Args(Self) :
       LET out == rem(Self, bgn, end)
       IN  /\ out.ret = "True"
           /\ Cardinality(RegionIdx(out.mid, MutList(out.mid), bgn, end)) >= 2
           /\ 0 < bgn /\ end < Len(chrm) - 1

\* The postcondition of a successful inv(bgn, end), as for AmpPost.
InvPost(s, mid, cp, bgn, end) ==
  LET A == MutList(mid)
      Z == MutList(cp)
      R == RegionIdx(mid, A, bgn, end)
      i == SetMin(R)
      j == SetMax(R)
  IN  /\ Covers(mid, A, bgn, end)
      /\ Len(Z) = Len(A)
      /\ \A t \in (1..Len(A)) \ R : Z[t] = A[t] /\ SegOf(cp, Z[t]) = SegOf(mid, A[t])
      /\ \A t \in R :
           LET old == SegOf(mid, A[i + j - t])
           IN  /\ Z[t] = A[i + j - t]
               /\ SegOf(cp, Z[t]) = [bgn |-> bgn + end - old.end, end |-> bgn + end - old.bgn,
                                     is_inv |-> ~old.is_inv, parent |-> old.parent]
      /\ Len(cp.chrm) = Len(s)
      /\ \A x \in 0..(Len(s) - 1) :
           cp.chrm[x + 1] = IF bgn <= x /\ x <= end THEN s[bgn + end - x + 1] ELSE s[x + 1]

\* C8: a successful inv(bgn, end) reverses the order of the mutated segments
\* covering [bgn, end], toggles the flag of each and gives segment [s0, s1] the
\* interval [bgn+end-s1, bgn+end-s0]; the segments outside keep coordinates,
\* flags, parents and order, and the [bgn, end] substring is reversed.
C8_InvertMirrors ==
  Running =>
    \A bgn, end \in Args(Self) :
      LET out == inv(Self, bgn, end)
      IN  out.ret = "True" => InvPost(chrm, out.mid, out.cp, bgn, end)

\* A successful inv(bgn, end) of cp over two segments or more.
InvertsSeveral(cp, bgn, end) ==
  LET out == inv(cp, bgn, end)
  IN  /\ out.ret = "True"
      /\ Cardinality(RegionIdx(out.mid, MutList(out.mid), bgn, end)) >= 2

\* C8 witness: from one state inv reverses a region of odd length and a region
\* of even length, each of two segments or more of unequal lengths.
C8_Witness ==
  /\ Running
  /\ \E bgn, end \in Args(Self) :
       (end - bgn + 1) % 2 = 1 /\ InvertsSeveral(Self, bgn, end)
  /\ \E bgn, end \in Args(Self) :
       (end - bgn + 1) % 2 = 0 /\ InvertsSeveral(Self, bgn, end)

RECURSIVE SumCp(_, _)
SumCp(cn, i) == IF i > Len(cn) THEN 0 ELSE cn[i].cp + SumCp(cn, i + 1)

\* C10: for every original segment the copy number get_copy_nums reports is
\* the number of mutated segments linked in the mutated list whose parent it
\* is, and the copy numbers sum to the length of the mutated list.
C10_CopyNumbers ==
  LET Z  == MutList(Self)
      cn == get_copy_nums(Self)
      ol == OrgList(Self)
  IN  /\ \A i \in 1..Len(ol) :
           cn[i].cp = Cardinality({t \in 1..Len(Z) : muts[Z[t]].parent = ol[i]})
      /\ SumCp(cn, 1) = Len(Z)

\* The positions at which an original segment of cp begins.
OrgBoundaries(cp) == {cp.orgs[o].bgn : o \in Range(OrgList(cp))}

\* The summed length of the original segments lst[i..].
RECURSIVE OrgSpan(_, _, _)
OrgSpan(cp, lst, i) ==
  IF i > Len(lst) THEN 0
  ELSE cp.orgs[lst[i]].end - cp.orgs[lst[i]].bgn + 1 + OrgSpan(cp, lst, i + 1)

\* C11: in every state the original list, read from its head through the r
\* links, is a gapless ordered partition of [0, N), N the length of the
\* chromosome given to ChrmProf: it starts at 0, each segment begins one past
\* the end of the one before, it ends at N - 1, the lengths sum to N and l
\* mirrors r; and no call of inv, rem or amp, whatever it returns, takes an
\* original segment out of the list or removes a boundary.
C11_OriginalPartition ==
  LET ol == OrgList(Self)
      N  == Len(sequence)
  IN  /\ Len(ol) >= 1
      /\ Range(ol) = DOMAIN orgs
      /\ orgs[ol[1]].bgn = 0 /\ orgs[ol[1]].l = None
      /\ orgs[ol[Len(ol)]].end = N - 1 /\ orgs[ol[Len(ol)]].r = None
      /\ \A i \in 1..Len(ol) : orgs[ol[i]].bgn <= orgs[ol[i]].end
      /\ \A i \in 1..(Len(ol) - 1) :
           /\ orgs[ol[i + 1]].bgn = orgs[ol[i]].end + 1
           /\ orgs[ol[i + 1]].l = ol[i]
      /\ OrgSpan(Self, ol, 1) = N
      /\ Running =>
           \A op \in Ops : \A bgn, end \in Args(Self) :
             LET out == Call(op, Self, bgn, end)
             IN  /\ OrgBoundaries(Self) \subseteq OrgBoundaries(out.cp)
                 /\ Range(ol) \subseteq Range(OrgList(out.cp))

\* C11 witness: rem deletes every descendant of an original segment in the
\* middle of an original list of three segments or more, and the segment stays.
C11_Witness ==
  /\ Running
  /\ Len(OrgList(Self)) >= 3
  /\ \E bgn, end \in Args(Self) :
       LET out == rem(Self, bgn, end)
       IN  /\ out.ret = "True"
           /\ \E o \in Range(OrgList(out.cp)) :
                /\ out.cp.orgs[o].children = <<>>
                /\ out.cp.orgs[o].l # None /\ out.cp.orgs[o].r # None
                /\ o \in Range(OrgList(Self)) => orgs[o].children # <<>>

\* What C12 expects of get_copy_nums after a call on a fresh profile: the three
\* original segments (0, bgn-1), (bgn, end), (end+1, N-1), the middle one with
\* copy number mid.
FreshCopyNums(N, bgn, end, mid) ==
  <<[bgn |-> 0, end |-> bgn - 1, cp |-> 1], [bgn |-> bgn, end |-> end, cp |-> mid],
    [bgn |-> end + 1, end |-> N - 1, cp |-> 1]>>

\* C12: on a freshly constructed profile of N bases, for every
\* 0 < bgn <= end < N - 1, each of inv, rem and amp returns True and
\* get_copy_nums then reports the original segments (0, bgn-1), (bgn, end),
\* (end+1, N-1) with copy numbers 1,1,1 after inv, 1,0,1 after rem and 1,2,1
\* after amp.
C12_FreshProfile ==
  LET N == Len(sequence) IN
  Self = ChrmProf(sequence) =>
    \A bgn, end \in Args(Self) :
      (0 < bgn /\ bgn <= end /\ end < N - 1) =>
        /\ inv(Self, bgn, end).ret = "True"
        /\ get_copy_nums(inv(Self, bgn, end).cp) = FreshCopyNums(N, bgn, end, 1)
        /\ rem(Self, bgn, end).ret = "True"
        /\ get_copy_nums(rem(Self, bgn, end).cp) = FreshCopyNums(N, bgn, end, 0)
        /\ amp(Self, bgn, end).ret = "True"
        /\ get_copy_nums(amp(Self, bgn, end).cp) = FreshCopyNums(N, bgn, end, 2)

\* C15: for every (bgn, end) that passes _is_in_bounds and _is_splitable,
\* _2split(bgn, end) leaves a mutated segment that begins at bgn and a mutated
\* segment that ends at end.
C15_BoundariesEnsured ==
  Running =>
    \A bgn, end \in Args(Self) :
      (_is_in_bounds(Self, bgn, end) /\ _is_splitable(Self, bgn, end)) =>
        LET sp == _2split(Self, bgn, end)
            Z  == Range(MutList(sp.cp))
        IN  /\ ~sp.exc
            /\ \E m \in Z : sp.cp.muts[m].bgn = bgn
            /\ \E m \in Z : sp.cp.muts[m].end = end

RECURSIVE SumLenCp(_, _)
SumLenCp(cn, i) ==
  IF i > Len(cn) THEN 0
  ELSE (cn[i].end - cn[i].bgn + 1) * cn[i].cp + SumLenCp(cn, i + 1)

\* C19: in every state every mutated segment, linked or kept in a children
\* list, is as long as its parent original segment, and the sum over the
\* original segments of length times copy number is M.
C19_LengthsEqualParent ==
  /\ \A m \in DOMAIN muts :
       muts[m].end - muts[m].bgn = orgs[muts[m].parent].end - orgs[muts[m].parent].bgn
  /\ SumLenCp(get_copy_nums(Self), 1) = Len(chrm)

(***************************************************************************)
(* The claims about the simulator, read off the state get_sv_read_nums     *)
(* left: the profile it was called on, its read_len, its centers ps and    *)
(* the dict svs it returned.                                               *)
(***************************************************************************)

\* get_sv_read_nums was called.
Sampled == read_len # 0

\* d[k]['mated_reads'], 0 while d has no key k.
MatedReads(d, k) == IF k \in DOMAIN d THEN d[k].mated_reads ELSE 0

\* The breakpoint tuples of a call of _add_sv_to_dict: the crossed edge's and
\* its mate's.
CurTup(cp, c) == _get_cur_pos(cp, c.cur, c.isBgn)
MateTup(cp, c) ==
  <<_get_mated_pos(cp, c.cur, c.isBgn).matePos, _get_mated_pos(cp, c.cur, c.isBgn).isLeft>>

\* C13: every sampled read that crosses a junction the simulator takes as
\* genuine (not adjacent) adds one to mated_reads of the crossed breakpoint's
\* record and one to mated_reads of its mate's record.
C13_BothEndsCounted ==
  Sampled =>
    LET run == ReadsRun(Self, read_len, ps) IN
    \A t \in 1..Len(run.calls) :
      LET c  == run.calls[t]
          mp == _get_mated_pos(Self, c.cur, c.isBgn)
      IN  (~mp.none /\ ~mp.isAdj) =>
            /\ MatedReads(c.after, CurTup(Self, c)) = MatedReads(c.before, CurTup(Self, c)) + 1
            /\ MatedReads(c.after, MateTup(Self, c)) = MatedReads(c.before, MateTup(Self, c)) + 1

\* C14: every key of the dict get_sv_read_nums returns has a mate, the mate is
\* a key of the dict, and the mate's mate is the key.
C14_MatesReciprocal ==
  Sampled =>
    \A k \in DOMAIN svs :
      /\ svs[k].mate # <<>>
      /\ svs[k].mate[1] \in DOMAIN svs
      /\ svs[svs[k].mate[1]].mate = <<k>>

\* C16: every center that get_sv_read_nums tests against a mutated segment
\* lies inside that segment.
C16_CenterInsideTested ==
  Sampled =>
    LET run == ReadsRun(Self, read_len, ps) IN
    \A t \in 1..Len(run.tested) :
      /\ muts[run.tested[t].cur].bgn <= run.tested[t].p
      /\ run.tested[t].p <= muts[run.tested[t].cur].end

\* The two segments that meet at the edge of cur a call of _add_sv_to_dict is
\* about continue each other in the original chromosome: neither is inverted
\* and the right one's parent begins one past the end of the left one's, or
\* both are inverted and the left one's parent begins one past the end of the
\* right one's.
GenuineAdj(cp, c) ==
  LET L  == IF c.isBgn THEN cp.muts[c.cur].l ELSE c.cur
      R  == IF c.isBgn THEN c.cur ELSE cp.muts[c.cur].r
      pL == cp.orgs[cp.muts[L].parent]
      pR == cp.orgs[cp.muts[R].parent]
  IN  \/ ~cp.muts[L].is_inv /\ ~cp.muts[R].is_inv /\ pR.bgn = pL.end + 1
      \/ cp.muts[L].is_inv /\ cp.muts[R].is_inv /\ pL.bgn = pR.end + 1

\* C17: a crossed junction between two neighbours of the mutated list is left
\* out of mated_reads (counted in total_reads only) exactly when the two
\* segments continue each other in the original chromosome; every other
\* crossed junction is recorded as a mated pair.
C17_AdjacentOnlyWhenConsecutive ==
  Sampled =>
    LET run == ReadsRun(Self, read_len, ps) IN
    \A t \in 1..Len(run.calls) :
      LET c == run.calls[t] IN
      ~_get_mated_pos(Self, c.cur, c.isBgn).none =>
        IF GenuineAdj(Self, c)
        THEN MatedReads(c.after, CurTup(Self, c)) = MatedReads(c.before, CurTup(Self, c))
        ELSE /\ MatedReads(c.after, CurTup(Self, c)) = MatedReads(c.before, CurTup(Self, c)) + 1
             /\ c.after[CurTup(Self, c)].mate = <<MateTup(Self, c)>>
             /\ c.after[MateTup(Self, c)].mate = <<CurTup(Self, c)>>
====
